---- MODULE Spec2Model ----
(***************************************************************************)
(* A/B-testing email campaign tool (src/app.py): variation assignment,     *)
(* recipient upload, campaign send, open/click tracking and per-variation  *)
(* funnel metrics, modelled over the three PostgreSQL tables the handlers  *)
(* read and write.                                                         *)
(***************************************************************************)
EXTENDS Integers, Sequences, FiniteSets, Bags, TLC

VARIABLES
    campaigns,      \* table campaigns: row c is the campaign with id c
    variations,     \* table email_variations, rows in insertion order
    recipients,     \* table recipients: row i has id i and tracking_id i
    now,            \* the database clock (CURRENT_TIMESTAMP)
    last,           \* the last request served and the response it got
    first_hit,      \* history: per recipient, time of the first committed open / click hit
    call,           \* a call of a pure function: its arguments and its result
    worker,         \* request workers serving tracking hits statement by statement
    sched,          \* the send_optimized_schedule request in progress
    delivered       \* history: the bag of recipients whose campaign mail Gmail accepted

vars == <<campaigns, variations, recipients, now, last, first_hit, call, worker, sched, delivered>>

-----------------------------------------------------------------------------
(* Bounds of the model *)

MaxCampaigns == 1
MaxRecipients == 2
MaxCsvRows == 2
MaxCsvRowsWhole == 1
MaxUploaded == 3
MaxTime == 2
MaxVariations == 3
NumWorkers == 2
HitRecipients == 1
MaxDelivered == 2
MaxSent == 10
MaxScheduleRows == 3
MaxHour == 24
MaxMinute == 60

-----------------------------------------------------------------------------
(* Values *)

\* SQL NULL of the nullable TIMESTAMP columns; timestamps are 1, 2, ...
NULL == 0

\* result slot of a pure call that has not run yet
NONE == "NONE"

BASE_URL == "http://localhost:5000"

\* the 1x1 transparent GIF both branches of tracking_pixel return
PIXEL == [kind |-> "image/gif", location |-> ""]

\* email strings the model feeds to the hash
Emails == {"amy@x.com", "Amy@X.com", "bob@x.com", "Bob@X.com", "carol@x.com"}

\* int(hashlib.md5(email.encode()).hexdigest()[:8], 16) of each of them
Md5Prefix(email) ==
    CASE email = "amy@x.com"   -> 1899509088
      [] email = "Amy@X.com"   -> 1656777325
      [] email = "bob@x.com"   -> 1555474471
      [] email = "Bob@X.com"   -> 1001345667
      [] email = "carol@x.com" -> 804420514

\* str.lower() on the same strings
Lower(email) ==
    CASE email = "Amy@X.com" -> "amy@x.com"
      [] email = "Bob@X.com" -> "bob@x.com"
      [] OTHER -> email

\* f"Variation_{chr(65+i)}"
VariationName(i) ==
    CASE i = 0 -> "Variation_A"
      [] i = 1 -> "Variation_B"
      [] OTHER -> "Variation_C"

VariationNames == {VariationName(i) : i \in 0..2}

-----------------------------------------------------------------------------
(* assign_variation *)

\* a wrong assign_variation: derives the name from the index, not from the list
assign_variation_by_index(recipient_email, vlist) ==
    IF Len(vlist) = 0 THEN "ZeroDivisionError"
    ELSE VariationName(Md5Prefix(recipient_email) % Len(vlist))

\* a wrong guard: an empty list yields the first variation name
assign_variation_default(recipient_email, vlist) ==
    IF Len(vlist) = 0 THEN VariationName(0)
    ELSE vlist[(Md5Prefix(recipient_email) % Len(vlist)) + 1].variation_name

assign_variation(recipient_email, vlist) ==
    IF Len(vlist) = 0 THEN "ZeroDivisionError"
    ELSE LET hash_int == Md5Prefix(recipient_email)
             variation_index == hash_int % Len(vlist)
         IN  vlist[variation_index + 1].variation_name

-----------------------------------------------------------------------------
(* Tables *)

\* number of variations parse_email_variations returns: the two parsed ones or the two fallbacks
ParsedVariations == 2

CampaignIds == 1..Len(campaigns)

RecipientIds == 1..Len(recipients)

\* SELECT variation_name FROM email_variations WHERE campaign_id = %s
\* (the table is insert-only, rows come back in insertion order)
CampaignVariations(campaign_id) ==
    LET rows == SelectSeq(variations, LAMBDA v : v.campaign_id = campaign_id)
    IN  [i \in 1..Len(rows) |-> [variation_name |-> rows[i].variation_name]]

\* str.strip() on the cells a CSV file may hold in its email column
Strip(cell) ==
    CASE cell = " bob@x.com " -> "bob@x.com"
      [] OTHER -> cell

CsvCells == {"amy@x.com", " bob@x.com ", ""}

OneAddress == {"amy@x.com", ""}

Json(success, count) == [kind |-> "json", success |-> success, count |-> count]

\* jsonify({'success': False, 'error': str(e)}) where the message matters
JsonError(error) == [kind |-> "json", success |-> FALSE, count |-> 0, error |-> error]

\* what the caller and the server log see of a request: the handler, whether it
\* logged an error, and the response
Request(op, error, response) ==
    [op |-> op, tracking_id |-> NULL, url |-> "", rowcount |-> 0,
     error |-> error, response |-> response]

\* the same of a tracking hit, with the token and url it carried and the number
\* of rows its UPDATE changed
Hit(op, tracking_id, url, rowcount, error, response) ==
    [op |-> op, tracking_id |-> tracking_id, url |-> url, rowcount |-> rowcount,
     error |-> error, response |-> response]

-----------------------------------------------------------------------------
(* create_campaign *)

CreateOutcomes == {"ok", "missing_fields", "generation_error", "db_error"}

create_campaign(outcome) ==
    /\ IF outcome = "ok"
       THEN /\ campaigns' = Append(campaigns, [status |-> "draft", total_recipients |-> 0])
            /\ variations' = variations \o
                   [i \in 1..ParsedVariations |->
                       [campaign_id |-> Len(campaigns) + 1,
                        variation_name |-> VariationName(i - 1)]]
            /\ last' = Request("create_campaign", FALSE,
                               Json(TRUE, ParsedVariations))
       ELSE /\ UNCHANGED <<campaigns, variations>>
            /\ last' = Request("create_campaign", outcome = "db_error",
                               Json(FALSE, 0))
    /\ UNCHANGED <<recipients, now, first_hit, call, worker, sched, delivered>>

-----------------------------------------------------------------------------
(* upload_recipients *)

UploadOutcomes == {"ok", "no_file", "connect_error", "commit_error"}

\* the non-empty stripped emails of the file, in file order
CsvEmails(csv) ==
    SelectSeq([i \in 1..Len(csv) |-> Strip(csv[i])], LAMBDA e : e # "")

\* a wrong upload: alternates the variations by position in the file
NewRecipient_round_robin(k, campaign_id, email, vlist) ==
    [id |-> Len(recipients) + k,
     campaign_id |-> campaign_id,
     email_address |-> email,
     variation_assigned |->
         IF Len(vlist) = 0 THEN "ZeroDivisionError"
         ELSE vlist[((k - 1) % Len(vlist)) + 1].variation_name,
     sent_at |-> NULL, opened_at |-> NULL, clicked_at |-> NULL, converted_at |-> NULL,
     status |-> "pending",
     tracking_id |-> Len(recipients) + k]

\* the row INSERT INTO recipients adds for the k-th email of the file
NewRecipient(k, campaign_id, email, vlist) ==
    [id |-> Len(recipients) + k,
     campaign_id |-> campaign_id,
     email_address |-> email,
     variation_assigned |-> assign_variation(email, vlist),
     sent_at |-> NULL, opened_at |-> NULL, clicked_at |-> NULL, converted_at |-> NULL,
     status |-> "pending",
     tracking_id |-> Len(recipients) + k]

upload_recipients(campaign_id, csv, outcome) ==
    LET vlist == CampaignVariations(campaign_id)
        emails == CsvEmails(csv)
        recipients_added == Len(emails)
        divided == \E k \in 1..recipients_added :
                       assign_variation(emails[k], vlist) = "ZeroDivisionError"
        raised == outcome \in {"connect_error", "commit_error"} \/ divided
        rejected == campaign_id = NULL \/ outcome = "no_file"
    IN  /\ IF rejected \/ raised
           THEN /\ UNCHANGED <<campaigns, recipients, first_hit>>
                /\ last' = Request("upload_recipients", ~rejected,
                                   IF ~rejected /\ outcome # "connect_error" /\ divided
                                   THEN JsonError("integer division or modulo by zero")
                                   ELSE Json(FALSE, 0))
           ELSE /\ recipients' = recipients \o
                       [k \in 1..recipients_added |->
                           NewRecipient(k, campaign_id, emails[k], vlist)]
                /\ first_hit' = first_hit \o
                       [k \in 1..recipients_added |-> [open |-> NULL, click |-> NULL]]
                /\ campaigns' =
                       [c \in CampaignIds |->
                           IF c = campaign_id
                           THEN [campaigns[c] EXCEPT !.total_recipients = recipients_added]
                           ELSE campaigns[c]]
                /\ last' = Request("upload_recipients", FALSE,
                                   Json(TRUE, recipients_added))
        /\ UNCHANGED <<variations, now, call, worker, sched, delivered>>

-----------------------------------------------------------------------------
(* send_campaign *)

SendOutcomes == {"ok", "connect_error", "commit_error", "status_error"}

\* per recipient: the mail went out, Gmail answered HttpError, or the send raised
SendResults == {"sent", "http_error", "exception"}

\* SELECT ... FROM recipients WHERE campaign_id = %s AND status = 'pending'
PendingRecipients(campaign_id) ==
    {i \in RecipientIds : /\ recipients[i].campaign_id = campaign_id
                          /\ recipients[i].status = "pending"}

\* a wrong update: the status of a campaign already sent goes back to 'draft'
MarkSent_toggle(cs, campaign_id) ==
    [c \in DOMAIN cs |->
        IF c = campaign_id
        THEN [cs[c] EXCEPT !.status = IF @ = "sent" THEN "draft" ELSE "sent"]
        ELSE cs[c]]

\* UPDATE campaigns SET status = 'sent' WHERE id = campaign_id
MarkSent(cs, campaign_id) ==
    [c \in DOMAIN cs |->
        IF c = campaign_id THEN [cs[c] EXCEPT !.status = "sent"] ELSE cs[c]]

\* a wrong loop: a failed send is stamped with the time as well
MarkRecipients_failed_stamped(rs, results, ts) ==
    [i \in DOMAIN rs |->
        IF i \in DOMAIN results /\ results[i] = "sent"
        THEN [rs[i] EXCEPT !.status = "sent", !.sent_at = ts]
        ELSE IF i \in DOMAIN results /\ results[i] = "http_error"
        THEN [rs[i] EXCEPT !.status = "failed", !.sent_at = ts]
        ELSE rs[i]]

\* the recipient rows after the loop over the pending recipients: status 'sent' and
\* sent_at for a mail that went out, status 'failed' for one Gmail refused, and no
\* change for one whose send raised
MarkRecipients(rs, results, ts) ==
    [i \in DOMAIN rs |->
        IF i \in DOMAIN results /\ results[i] = "sent"
        THEN [rs[i] EXCEPT !.status = "sent", !.sent_at = ts]
        ELSE IF i \in DOMAIN results /\ results[i] = "http_error"
        THEN [rs[i] EXCEPT !.status = "failed"]
        ELSE rs[i]]

send_campaign(campaign_id, auth_ok, outcome, results) ==
    LET sent_count == Cardinality({i \in DOMAIN results : results[i] = "sent"})
        updated == MarkRecipients(recipients, results, now)
        marked == MarkSent(campaigns, campaign_id)
    IN  /\ CASE campaign_id = NULL \/ ~auth_ok ->
                  /\ UNCHANGED <<campaigns, recipients>>
                  /\ last' = Request("send_campaign", FALSE,
                                     Json(FALSE, 0))
             [] campaign_id # NULL /\ auth_ok
                  /\ outcome \in {"connect_error", "commit_error"} ->
                  /\ UNCHANGED <<campaigns, recipients>>
                  /\ last' = Request("send_campaign", TRUE,
                                     Json(FALSE, 0))
             [] campaign_id # NULL /\ auth_ok /\ outcome = "status_error" ->
                  /\ recipients' = updated
                  /\ UNCHANGED campaigns
                  /\ last' = Request("send_campaign", TRUE,
                                     Json(FALSE, 0))
             [] campaign_id # NULL /\ auth_ok /\ outcome = "ok" ->
                  /\ recipients' = updated
                  /\ campaigns' = marked
                  /\ last' = Request("send_campaign", FALSE,
                                     Json(TRUE, sent_count))
        /\ UNCHANGED <<variations, now, first_hit, call, worker, sched>>

-----------------------------------------------------------------------------
(* tracking_pixel and track_click *)

\* the handler ran to its return, or get_db_connection, execute or commit raised
TrackOutcomes == {"ok", "error"}

\* a token no recipient row carries (tracking ids start at 1)
UnknownToken == NULL

\* the url query parameter is not in the request
ABSENT == "<absent>"

Urls == {ABSENT, "http://shop.example/offer"}

Redirect(location) == [kind |-> "redirect", location |-> location]

\* a wrong open update: the WHERE clause lacks "AND opened_at IS NULL"
UpdateOpened_unconditional(rs, tracking_id, ts) ==
    [i \in DOMAIN rs |->
        IF rs[i].tracking_id = tracking_id
        THEN [rs[i] EXCEPT !.opened_at = ts]
        ELSE rs[i]]

\* UPDATE recipients SET opened_at = CURRENT_TIMESTAMP
\* WHERE tracking_id = %s AND opened_at IS NULL
UpdateOpened(rs, tracking_id, ts) ==
    [i \in DOMAIN rs |->
        IF rs[i].tracking_id = tracking_id /\ rs[i].opened_at = NULL
        THEN [rs[i] EXCEPT !.opened_at = ts]
        ELSE rs[i]]

\* a wrong click update: it also records an open
UpdateClicked_and_opened(rs, tracking_id, ts) ==
    [i \in DOMAIN rs |->
        IF rs[i].tracking_id = tracking_id /\ rs[i].clicked_at = NULL
        THEN [rs[i] EXCEPT !.clicked_at = ts, !.opened_at = ts]
        ELSE rs[i]]

\* a wrong update: the first click also converts
UpdateClicked_and_converted(rs, tracking_id, ts) ==
    [i \in DOMAIN rs |->
        IF rs[i].tracking_id = tracking_id /\ rs[i].clicked_at = NULL
        THEN [rs[i] EXCEPT !.clicked_at = ts, !.converted_at = ts]
        ELSE rs[i]]

\* UPDATE recipients SET clicked_at = CURRENT_TIMESTAMP
\* WHERE tracking_id = %s AND clicked_at IS NULL
UpdateClicked(rs, tracking_id, ts) ==
    [i \in DOMAIN rs |->
        IF rs[i].tracking_id = tracking_id /\ rs[i].clicked_at = NULL
        THEN [rs[i] EXCEPT !.clicked_at = ts]
        ELSE rs[i]]

\* cursor.rowcount: the number of rows an UPDATE changed
Changed(before, after) == Cardinality({i \in DOMAIN before : after[i] # before[i]})

\* history of the committed hits: the time of the first one per recipient and kind
RecordHit(fh, kind, tracking_id, ts) ==
    [i \in DOMAIN fh |->
        IF i = tracking_id /\ fh[i][kind] = NULL
        THEN [fh[i] EXCEPT ![kind] = ts]
        ELSE fh[i]]

\* a wrong pixel handler: the except branch answers with an error
PixelResponse_error(outcome) ==
    IF outcome = "ok" THEN PIXEL ELSE [kind |-> "error", location |-> ""]

\* the try branch and the except branch build the same response
PixelResponse(outcome) ==
    IF outcome = "ok" THEN PIXEL ELSE PIXEL

tracking_pixel(tracking_id, outcome) ==
    /\ IF outcome = "ok"
       THEN /\ recipients' = UpdateOpened(recipients, tracking_id, now)
            /\ first_hit' = RecordHit(first_hit, "open", tracking_id, now)
       ELSE UNCHANGED <<recipients, first_hit>>
    /\ last' = Hit("tracking_pixel", tracking_id, "",
                  IF outcome = "ok" THEN Changed(recipients, recipients') ELSE 0,
                  outcome # "ok", PixelResponse(outcome))
    /\ UNCHANGED <<campaigns, variations, now, call, worker, sched, delivered>>

\* a wrong click handler: the except branch redirects to the requested url too
ClickResponse_same_url(url, outcome) ==
    Redirect(IF url = ABSENT THEN BASE_URL ELSE url)

ClickResponse(url, outcome) ==
    LET original_url == IF url = ABSENT THEN BASE_URL ELSE url
    IN  IF outcome = "ok" THEN Redirect(original_url) ELSE Redirect(BASE_URL)

track_click(tracking_id, url, outcome) ==
    /\ IF outcome = "ok"
       THEN /\ recipients' = UpdateClicked(recipients, tracking_id, now)
            /\ first_hit' = RecordHit(first_hit, "click", tracking_id, now)
       ELSE UNCHANGED <<recipients, first_hit>>
    /\ last' = Hit("track_click", tracking_id, url,
                  IF outcome = "ok" THEN Changed(recipients, recipients') ELSE 0,
                  outcome # "ok", ClickResponse(url, outcome))
    /\ UNCHANGED <<campaigns, variations, now, call, worker, sched, delivered>>

-----------------------------------------------------------------------------
(* calculate_ab_metrics *)

RECURSIVE Gcd(_, _)
Gcd(a, b) == IF b = 0 THEN a ELSE Gcd(b, a % b)

\* the int 0 the guarded rates fall back to
Zero == [num |-> 0, den |-> 1]

\* a division by zero raises
ZeroDivisionError == [num |-> 0, den |-> 0]

\* n / d * 100 as the exact fraction num/den in lowest terms
Percent(n, d) ==
    IF d = 0 THEN ZeroDivisionError
    ELSE LET g == Gcd(100 * n, d)
         IN  [num |-> (100 * n) \div g, den |-> d \div g]

\* SELECT DISTINCT variation_assigned FROM recipients WHERE campaign_id = %s
AssignedVariations(rs, campaign_id) ==
    {rs[i].variation_assigned : i \in {j \in DOMAIN rs : rs[j].campaign_id = campaign_id}}

\* a wrong aggregation: the WHERE clause lacks "AND status = 'sent'"
SentRows_any_status(rs, campaign_id, variation) ==
    {i \in DOMAIN rs : /\ rs[i].campaign_id = campaign_id
                       /\ rs[i].variation_assigned = variation}

\* the rows the aggregate runs over:
\* WHERE campaign_id = %s AND variation_assigned = %s AND status = 'sent'
SentRows(rs, campaign_id, variation) ==
    {i \in DOMAIN rs : /\ rs[i].campaign_id = campaign_id
                       /\ rs[i].variation_assigned = variation
                       /\ rs[i].status = "sent"}

\* a wrong rate block: click_through_rate is guarded by total_sent, as the other rates
FunnelMetrics_guard_sent(total_sent, opened, clicked, converted) ==
    [total_sent |-> total_sent,
     opened |-> opened,
     clicked |-> clicked,
     converted |-> converted,
     open_rate |-> IF total_sent > 0 THEN Percent(opened, total_sent) ELSE Zero,
     click_rate |-> IF total_sent > 0 THEN Percent(clicked, total_sent) ELSE Zero,
     conversion_rate |-> IF total_sent > 0 THEN Percent(converted, total_sent) ELSE Zero,
     click_through_rate |-> IF total_sent > 0 THEN Percent(clicked, opened) ELSE Zero]

FunnelMetrics(total_sent, opened, clicked, converted) ==
    [total_sent |-> total_sent,
     opened |-> opened,
     clicked |-> clicked,
     converted |-> converted,
     open_rate |-> IF total_sent > 0 THEN Percent(opened, total_sent) ELSE Zero,
     click_rate |-> IF total_sent > 0 THEN Percent(clicked, total_sent) ELSE Zero,
     conversion_rate |-> IF total_sent > 0 THEN Percent(converted, total_sent) ELSE Zero,
     click_through_rate |-> IF opened > 0 THEN Percent(clicked, opened) ELSE Zero]

calculate_ab_metrics(rs, campaign_id) ==
    [variation \in AssignedVariations(rs, campaign_id) |->
        LET rows == SentRows(rs, campaign_id, variation)
        IN  FunnelMetrics(Cardinality(rows),
                          Cardinality({i \in rows : rs[i].opened_at # NULL}),
                          Cardinality({i \in rows : rs[i].clicked_at # NULL}),
                          Cardinality({i \in rows : rs[i].converted_at # NULL}))]

Rates == {"open_rate", "click_rate", "conversion_rate", "click_through_rate"}

\* calculate_ab_metrics raised instead of returning
MetricsRaised(metrics) ==
    \E v \in DOMAIN metrics : \E r \in Rates : metrics[v][r] = ZeroDivisionError

ResultsOutcomes == {"ok", "connect_error"}

campaign_results(campaign_id, outcome) ==
    LET metrics == calculate_ab_metrics(recipients, campaign_id)
        error == CASE outcome # "ok" -> "connection failed"
                   [] outcome = "ok" /\ campaign_id \notin CampaignIds -> "Campaign not found"
                   [] outcome = "ok" /\ campaign_id \in CampaignIds /\ MetricsRaised(metrics) ->
                          "division by zero"
                   [] OTHER -> ""
    IN  /\ last' = Request("campaign_results",
                           error \in {"connection failed", "division by zero"},
                           [kind |-> "json", success |-> error = "", error |-> error,
                            campaign |-> IF error = "" THEN campaign_id ELSE NULL,
                            metrics |-> IF error = "" THEN metrics ELSE <<>>])
        /\ UNCHANGED <<campaigns, variations, recipients, now, first_hit, call, worker, sched, delivered>>

-----------------------------------------------------------------------------
(* send_optimized_schedule *)

\* the keys of BATCH_SEND_TIMES, in the order of the dict
Batches ==
    <<"Morning Batch 1", "Morning Batch 2", "Evening Batch 1", "Evening Batch 2",
      "Night Batch 1", "Night Batch 2">>

BatchNames == {Batches[i] : i \in DOMAIN Batches}

\* the else branch of the classification
UNKNOWN == "Unknown Batch"

\* a row that `continue` skipped
DROPPED == "<dropped>"

\* datetime.time(h, m), as minutes since midnight
Time(h, m) == h * 60 + m

\* BATCH_SEND_TIMES[batch], as a time of day
BATCH_SEND_TIMES(batch) ==
    CASE batch = "Morning Batch 1" -> Time(8, 0)
      [] batch = "Morning Batch 2" -> Time(11, 0)
      [] batch = "Evening Batch 1" -> Time(14, 0)
      [] batch = "Evening Batch 2" -> Time(19, 0)
      [] batch = "Night Batch 1"   -> Time(0, 30)
      [] batch = "Night Batch 2"   -> Time(4, 45)

\* str(row.get('opentime', '')).strip() of a csv cell: digits ':' digits
\* ("hh:mm"), nothing but blanks ("blank"), the NaN of a missing cell ("nan"),
\* or other text ("text")
Cell(shape, h, m) == [shape |-> shape, h |-> h, m |-> m]

\* strptime raised ValueError
ValueError == -1

\* datetime.datetime.strptime(opentime, "%H:%M").time()
strptime(opentime) ==
    IF opentime.shape = "hh:mm" /\ opentime.h <= 23 /\ opentime.m <= 59
    THEN Time(opentime.h, opentime.m)
    ELSE ValueError

\* a wrong test: the night interval ends before 23:59
InBatch_night_exclusive(batch, open_time) ==
    CASE batch = "Morning Batch 1" -> Time(6, 0) <= open_time /\ open_time < Time(10, 0)
      [] batch = "Morning Batch 2" -> Time(10, 0) <= open_time /\ open_time < Time(12, 0)
      [] batch = "Evening Batch 1" -> Time(12, 0) <= open_time /\ open_time < Time(17, 0)
      [] batch = "Evening Batch 2" -> Time(17, 0) <= open_time /\ open_time < Time(21, 0)
      [] batch = "Night Batch 1"   ->
             \/ Time(21, 0) <= open_time /\ open_time < Time(23, 59)
             \/ Time(0, 0) <= open_time /\ open_time < Time(1, 0)
      [] batch = "Night Batch 2"   -> Time(1, 0) <= open_time /\ open_time < Time(6, 0)

\* the membership test of each branch of the if / elif chain
InBatch(batch, open_time) ==
    CASE batch = "Morning Batch 1" -> Time(6, 0) <= open_time /\ open_time < Time(10, 0)
      [] batch = "Morning Batch 2" -> Time(10, 0) <= open_time /\ open_time < Time(12, 0)
      [] batch = "Evening Batch 1" -> Time(12, 0) <= open_time /\ open_time < Time(17, 0)
      [] batch = "Evening Batch 2" -> Time(17, 0) <= open_time /\ open_time < Time(21, 0)
      [] batch = "Night Batch 1"   ->
             \/ Time(21, 0) <= open_time /\ open_time <= Time(23, 59)
             \/ Time(0, 0) <= open_time /\ open_time < Time(1, 0)
      [] batch = "Night Batch 2"   -> Time(1, 0) <= open_time /\ open_time < Time(6, 0)

\* the chain from its i-th branch on: the first branch whose test holds
RECURSIVE ElifFrom(_, _)
ElifFrom(i, open_time) ==
    IF i > Len(Batches) THEN UNKNOWN
    ELSE IF InBatch(Batches[i], open_time) THEN Batches[i]
    ELSE ElifFrom(i + 1, open_time)

\* a wrong chain: an open time of 10:00 still falls in the first batch
BatchOf_ten_inclusive(open_time) ==
    IF open_time = Time(10, 0) THEN "Morning Batch 1" ELSE ElifFrom(1, open_time)

\* the batch the if / elif chain gives an open time
BatchOf(open_time) == ElifFrom(1, open_time)

\* a wrong loop body: a row whose open time does not parse goes to the first batch
RowBatch_keep_unparsed(email, opentime) ==
    IF email = "" \/ opentime.shape = "blank" THEN DROPPED
    ELSE IF strptime(opentime) = ValueError THEN Batches[1]
    ELSE BatchOf(strptime(opentime))

\* the body of the classification loop for one row: the batch it joins, or DROPPED
RowBatch(email, opentime) ==
    IF email = "" \/ opentime.shape = "blank" THEN DROPPED
    ELSE IF strptime(opentime) = ValueError THEN DROPPED
    ELSE BatchOf(strptime(opentime))

\* batches_to_process after the loop over the rows of the file
batches_to_process(rows) ==
    [batch \in BatchNames |->
        LET kept == SelectSeq(rows, LAMBDA row : RowBatch(row.email, row.opentime) = batch)
        IN  [i \in 1..Len(kept) |-> kept[i].email]]

\* batches_to_process["Unknown Batch"] raises KeyError
KeyError(rows) ==
    \E i \in 1..Len(rows) : RowBatch(rows[i].email, rows[i].opentime) = UNKNOWN

\* the wall clock counts ticks of half a minute from midnight of the day of the call
TicksPerMinute == 2

Day == 24 * 60 * TicksPerMinute

\* the clock at s ticks past h:m of the day of the call
ClockAt(h, m, s) == Time(h, m) * TicksPerMinute + s

\* the time of day of a clock value, in minutes
TimeOfDay(clock) == (clock % Day) \div TicksPerMinute

\* a wrong schedule: a time of day that has passed is not moved to tomorrow
SendTime_today(now_, batch) ==
    (now_ - (now_ % Day)) + BATCH_SEND_TIMES(batch) * TicksPerMinute

\* now.replace(hour=h, minute=m, second=0, microsecond=0), plus a day if it is
\* before now
SendTime(now_, batch) ==
    LET send_time == (now_ - (now_ % Day)) + BATCH_SEND_TIMES(batch) * TicksPerMinute
    IN  IF send_time < now_ THEN send_time + Day ELSE send_time

\* a wrong order: the batches stay in the order of the dict
Sorted_dict_order(entries) ==
    LET present == SelectSeq(Batches, LAMBDA b : \E e \in entries : e.batch = b)
    IN  [i \in 1..Len(present) |-> CHOOSE e \in entries : e.batch = present[i]]

\* sorted_batches.sort(): ascending send_time (no two batches share one, their
\* times of day differ)
RECURSIVE Sorted(_)
Sorted(entries) ==
    IF entries = {} THEN <<>>
    ELSE LET first == CHOOSE e \in entries :
                          \A other \in entries : e.send_time <= other.send_time
         IN  <<first>> \o Sorted(entries \ {first})

\* sorted_batches: an entry for each batch with recipients
sorted_batches(now_, to_process) ==
    Sorted({[send_time |-> SendTime(now_, batch), batch |-> batch,
             recipients |-> to_process[batch]] :
               batch \in {b \in BatchNames : Len(to_process[b]) > 0}})

\* the response of the request
ScheduleJson(success, scheduled, error) ==
    [kind |-> "json", success |-> success, scheduled_batches |-> scheduled,
     error |-> error]

\* an uncaught exception: Flask answers 500
InternalServerError == [kind |-> "500", success |-> FALSE,
                        scheduled_batches |-> <<>>, error |-> "TypeError"]

NoResponse == [kind |-> NONE, success |-> FALSE, scheduled_batches |-> <<>>,
               error |-> ""]

\* no send_optimized_schedule request has arrived
NoSchedule ==
    [pc |-> "idle", rows |-> <<>>, called_at |-> 0, clock |-> 0, plan |-> <<>>,
     k |-> 0, j |-> 0, log |-> <<>>, scheduled |-> <<>>, response |-> NoResponse]

\* how the request fares before it classifies: it runs, carries no file, no
\* subject field, an empty subject or body, a file without the two columns, or
\* authenticate_gmail raises
PreOutcomes == {"ok", "no_file", "subject_none", "no_subject", "bad_columns", "auth_error"}

PreError(pre) ==
    CASE pre = "no_file"     -> "CSV file not uploaded"
      [] pre = "no_subject"  -> "Subject and HTML body are required."
      [] pre = "bad_columns" -> "CSV must have 'email' and 'opentime' columns."
      [] pre = "auth_error"  -> "credentials.json file not found"

\* the request from its arrival to the sorted schedule: checks, classification of
\* the rows, and a send time for each batch with recipients
ScheduleRequest(rows, clock, pre) ==
    /\ sched.pc = "idle"
    /\ sched' =
           IF pre = "subject_none"
           THEN [NoSchedule EXCEPT !.pc = "done", !.response = InternalServerError]
           ELSE IF pre # "ok"
           THEN [NoSchedule EXCEPT !.pc = "done",
                                   !.response = ScheduleJson(FALSE, <<>>, PreError(pre))]
           ELSE IF KeyError(rows)
           THEN [NoSchedule EXCEPT !.pc = "done", !.rows = rows,
                                   !.response = ScheduleJson(FALSE, <<>>, "'Unknown Batch'")]
           ELSE LET plan == sorted_batches(clock, batches_to_process(rows))
                IN  [NoSchedule EXCEPT !.pc = IF Len(plan) = 0 THEN "return" ELSE "wait",
                                       !.rows = rows, !.called_at = clock,
                                       !.clock = clock, !.plan = plan,
                                       !.k = IF Len(plan) = 0 THEN 0 ELSE 1]
    /\ UNCHANGED <<campaigns, variations, recipients, now, last, first_hit, call, worker, delivered>>

\* a wrong wait: the batch does not sleep
Sleep_none(clock, send_time) == {clock}

\* the clock after time.sleep(wait_seconds) if wait_seconds > 0: the send time, or
\* later if the sleep overran
Sleep(clock, send_time) ==
    IF send_time - clock > 0 THEN {send_time, send_time + 1} ELSE {clock}

\* the top of the dispatch loop for batch k: wait until its send time
Wait(woke) ==
    /\ sched.pc = "wait"
    /\ woke \in Sleep(sched.clock, sched.plan[sched.k].send_time)
    /\ sched' = [sched EXCEPT
                    !.pc = "send", !.j = 1, !.clock = woke,
                    !.log = Append(@, [kind |-> "begin", batch |-> sched.plan[sched.k].batch,
                                       email |-> "", at |-> woke, result |-> NONE])]
    /\ UNCHANGED <<campaigns, variations, recipients, now, last, first_hit, call, worker, delivered>>

\* where the loops stand after a send that returned: the next recipient, or the
\* batch is reported and the next batch or the return follows
AfterSend(s, result) ==
    IF s.j < Len(s.plan[s.k].recipients)
    THEN [s EXCEPT !.j = s.j + 1]
    ELSE LET reported == [s EXCEPT !.scheduled =
                             Append(@, <<s.plan[s.k].batch, Len(s.plan[s.k].recipients)>>)]
         IN  IF s.k < Len(s.plan)
             THEN [reported EXCEPT !.pc = "wait", !.k = s.k + 1, !.j = 0]
             ELSE [reported EXCEPT !.pc = "return"]

\* one pass of the inner loop: send_email_via_gmail for recipient j of batch k,
\* which takes `took` ticks; an exception other than HttpError leaves the loops
\* for the handler's except
SendOne(result, took) ==
    /\ sched.pc = "send"
    /\ LET attempted ==
               [sched EXCEPT
                   !.clock = sched.clock + took,
                   !.log = Append(@, [kind |-> "send",
                                      batch |-> sched.plan[sched.k].batch,
                                      email |-> sched.plan[sched.k].recipients[sched.j],
                                      at |-> sched.clock, result |-> result])]
       IN  sched' = IF result = "exception"
                    THEN [attempted EXCEPT
                             !.pc = "done",
                             !.response = ScheduleJson(FALSE, <<>>, "send raised")]
                    ELSE AfterSend(attempted, result)
    /\ UNCHANGED <<campaigns, variations, recipients, now, last, first_hit, call, worker, delivered>>

\* return jsonify({'success': True, 'scheduled_batches': scheduled})
Return ==
    /\ sched.pc = "return"
    /\ sched' = [sched EXCEPT !.pc = "done",
                              !.response = ScheduleJson(TRUE, sched.scheduled, "")]
    /\ UNCHANGED <<campaigns, variations, recipients, now, last, first_hit, call, worker, delivered>>

-----------------------------------------------------------------------------
(* The program: requests arrive one at a time, in any order, as time passes *)

NoRequest == Request("none", FALSE, Json(FALSE, 0))

NoCall == [fn |-> NONE, email |-> "", variations |-> <<>>, result |-> NONE]

NoResults == [i \in {} |-> "sent"]

Workers == 1..NumWorkers

\* a worker between requests
Idle == [pc |-> "idle", op |-> "none", tracking_id |-> NULL, url |-> "",
         ts |-> NULL, rowcount |-> 0]

Tick ==
    /\ now < MaxTime
    /\ now' = now + 1
    /\ UNCHANGED <<campaigns, variations, recipients, last, first_hit, call, worker, sched, delivered>>

\* sequences over S of length 0..n
RECURSIVE SeqsUpTo(_, _)
SeqsUpTo(S, n) ==
    IF n = 0 THEN {<<>>}
    ELSE LET shorter == SeqsUpTo(S, n - 1)
         IN  shorter \cup {Append(q, x) : q \in {r \in shorter : Len(r) = n - 1}, x \in S}

Init ==
    /\ campaigns = <<>>
    /\ variations = <<>>
    /\ recipients = <<>>
    /\ now = 1
    /\ last = NoRequest
    /\ first_hit = <<>>
    /\ call = NoCall
    /\ worker = [p \in Workers |-> Idle]
    /\ sched = NoSchedule
    /\ delivered = EmptyBag

\* ids a request may name: those of the campaigns, one of no campaign, and none
RequestedCampaigns == {NULL} \cup (1..(Len(campaigns) + 1))

\* tokens a hit may carry: those of the recipients and one of no recipient
RequestedTokens == {UnknownToken} \cup RecipientIds

CreateStep ==
    \E outcome \in CreateOutcomes :
        /\ outcome = "ok" => Len(campaigns) < MaxCampaigns
        /\ create_campaign(outcome)

\* an upload of a file of at most `len` rows with email cells from `cells`, while
\* the table holds at most `rows` recipients; an upload that fails for another
\* reason than its content leaves the same state whatever the file holds
UploadStep(cells, len, rows) ==
    \E campaign_id \in RequestedCampaigns, outcome \in UploadOutcomes :
        \E csv \in IF outcome = "ok" THEN SeqsUpTo(cells, len) ELSE {<<>>} :
            /\ Len(recipients) + Len(CsvEmails(csv)) <= rows
            /\ upload_recipients(campaign_id, csv, outcome)

\* the mails Gmail accepted during a request: one for every recipient whose send
\* returned success, whatever the database did with its row afterwards
Accepted(results) == SetToBag({i \in DOMAIN results : results[i] = "sent"})

\* a send without a campaign id ends before it authenticates, one that fails to
\* authenticate before it connects, and one that fails to connect attempts no mail;
\* a watched send adds the mails Gmail accepted to the history, as long as no
\* recipient it may write to has MaxDelivered of them
SendStep(watched) ==
    \E campaign_id \in RequestedCampaigns :
        \E auth_ok \in IF campaign_id = NULL THEN {TRUE} ELSE BOOLEAN :
            \E outcome \in IF campaign_id = NULL \/ ~auth_ok THEN {"ok"} ELSE SendOutcomes :
                \E results \in IF campaign_id # NULL /\ auth_ok /\ outcome # "connect_error"
                               THEN [PendingRecipients(campaign_id) -> SendResults]
                               ELSE {NoResults} :
                    /\ watched => \A i \in DOMAIN results : CopiesIn(i, delivered) < MaxDelivered
                    /\ send_campaign(campaign_id, auth_ok, outcome, results)
                    /\ delivered' = IF watched THEN delivered (+) Accepted(results)
                                               ELSE delivered

PixelStep ==
    \E tracking_id \in RequestedTokens, outcome \in TrackOutcomes :
        tracking_pixel(tracking_id, outcome)

ClickStep ==
    \E tracking_id \in RequestedTokens, url \in Urls, outcome \in TrackOutcomes :
        track_click(tracking_id, url, outcome)

ResultsStep ==
    \E campaign_id \in RequestedCampaigns \ {NULL}, outcome \in ResultsOutcomes :
        campaign_results(campaign_id, outcome)

\* The whole program, every recipient carrying the same address and every file
\* at most MaxCsvRowsWhole rows
Next ==
    \/ Tick
    \/ CreateStep
    \/ UploadStep(OneAddress, MaxCsvRowsWhole, MaxRecipients)
    \/ SendStep(FALSE)
    \/ PixelStep
    \/ ClickStep
    \/ ResultsStep

Spec == Init /\ [][Next]_vars

\* Campaign creation and recipient upload alone, over files of several addresses
NextUpload ==
    \/ CreateStep
    \/ UploadStep(CsvCells, MaxCsvRows, MaxUploaded)

SpecUpload == Init /\ [][NextUpload]_vars

\* The life of a campaign: creation, uploads and sends, as time passes
NextLifecycle ==
    \/ Tick
    \/ CreateStep
    \/ UploadStep(OneAddress, MaxCsvRowsWhole, MaxRecipients)
    \/ SendStep(FALSE)

SpecLifecycle == Init /\ [][NextLifecycle]_vars

\* Creation, uploads and sends, with the mails Gmail accepted on record
NextDeliveries ==
    \/ Tick
    \/ CreateStep
    \/ UploadStep(OneAddress, MaxCsvRowsWhole, MaxRecipients)
    \/ SendStep(TRUE)

SpecDeliveries == Init /\ [][NextDeliveries]_vars

-----------------------------------------------------------------------------
(* assign_variation alone, over emails and variation lists of any content *)

VariationLists ==
    SeqsUpTo([variation_name : VariationNames], MaxVariations)

InitAssign ==
    /\ campaigns = <<>>
    /\ variations = <<>>
    /\ recipients = <<>>
    /\ now = 1
    /\ last = NoRequest
    /\ first_hit = <<>>
    /\ call \in [fn : {"assign_variation"}, email : Emails,
                 variations : VariationLists, result : {NONE}]
    /\ worker = [p \in Workers |-> Idle]
    /\ sched = NoSchedule
    /\ delivered = EmptyBag

AssignStep ==
    /\ call.fn = "assign_variation"
    /\ call.result = NONE
    /\ call' = [call EXCEPT !.result = assign_variation(call.email, call.variations)]
    /\ UNCHANGED <<campaigns, variations, recipients, now, last, first_hit, worker, sched, delivered>>

SpecAssign == InitAssign /\ [][AssignStep]_vars

-----------------------------------------------------------------------------
(* calculate_ab_metrics over the recipient tables one upload, one send and any *)
(* number of pixel and click hits leave behind                                 *)

Rep(n, x) == [i \in 1..n |-> x]

Kind(email, status, opened, clicked) ==
    [email |-> email, status |-> status, opened |-> opened, clicked |-> clicked]

\* the recipients of the first variation that were sent to, by open and click
SentKinds ==
    <<Kind("amy@x.com", "sent", FALSE, FALSE), Kind("amy@x.com", "sent", TRUE, FALSE),
      Kind("amy@x.com", "sent", FALSE, TRUE), Kind("amy@x.com", "sent", TRUE, TRUE)>>

\* further recipients: not sent to but tracked, and of the second variation
OtherKinds ==
    <<Kind("amy@x.com", "pending", TRUE, FALSE), Kind("amy@x.com", "failed", FALSE, TRUE),
      Kind("bob@x.com", "sent", FALSE, TRUE), Kind("bob@x.com", "pending", TRUE, TRUE)>>

\* how many recipients of each sent kind: at most MaxSent in all
SentCounts ==
    {n \in [1..4 -> 0..MaxSent] : n[1] + n[2] + n[3] + n[4] <= MaxSent}

OtherCounts == [1..4 -> 0..1]

KindsOf(n, m) ==
    Rep(n[1], SentKinds[1]) \o Rep(n[2], SentKinds[2]) \o
    Rep(n[3], SentKinds[3]) \o Rep(n[4], SentKinds[4]) \o
    Rep(m[1], OtherKinds[1]) \o Rep(m[2], OtherKinds[2]) \o
    Rep(m[3], OtherKinds[3]) \o Rep(m[4], OtherKinds[4])

TableOf(kinds, vlist) ==
    [i \in 1..Len(kinds) |->
        [id |-> i,
         campaign_id |-> 1,
         email_address |-> kinds[i].email,
         variation_assigned |-> assign_variation(kinds[i].email, vlist),
         sent_at |-> IF kinds[i].status = "sent" THEN 1 ELSE NULL,
         opened_at |-> IF kinds[i].opened THEN 1 ELSE NULL,
         clicked_at |-> IF kinds[i].clicked THEN 1 ELSE NULL,
         converted_at |-> NULL,
         status |-> kinds[i].status,
         tracking_id |-> i]]

InitMetrics ==
    \E n \in SentCounts, m \in OtherCounts :
        LET kinds == KindsOf(n, m)
            vlist == [i \in 1..ParsedVariations |-> [variation_name |-> VariationName(i - 1)]]
            table == TableOf(kinds, vlist)
        IN  /\ campaigns =
                   <<[status |-> IF \E i \in DOMAIN kinds : kinds[i].status # "pending"
                                 THEN "sent" ELSE "draft",
                      total_recipients |-> Len(kinds)]>>
            /\ variations =
                   [i \in 1..ParsedVariations |->
                       [campaign_id |-> 1, variation_name |-> VariationName(i - 1)]]
            /\ recipients = table
            /\ first_hit = [i \in DOMAIN table |->
                               [open |-> table[i].opened_at, click |-> table[i].clicked_at]]
            /\ now = 1
            /\ last = NoRequest
            /\ call = NoCall
            /\ worker = [p \in Workers |-> Idle]
            /\ sched = NoSchedule
            /\ delivered = EmptyBag

SpecMetrics == InitMetrics /\ [][ResultsStep]_vars

-----------------------------------------------------------------------------
(* tracking_pixel and track_click statement by statement, served by concurrent *)
(* workers that share the database (READ COMMITTED, row locks)                 *)

\* the worker holds an uncommitted write of a recipient row, which it locks
HoldsRow(p) == worker[p].pc = "commit" /\ worker[p].rowcount = 1

\* the table after the worker's UPDATE, as far as its transaction sees it
Updated(p) ==
    IF worker[p].op = "tracking_pixel"
    THEN UpdateOpened(recipients, worker[p].tracking_id, worker[p].ts)
    ELSE UpdateClicked(recipients, worker[p].tracking_id, worker[p].ts)

\* a wrong store: an UPDATE does not wait for the uncommitted write of another
\* transaction, as a read-then-write pair in application code would not
Blocked_never(p) == FALSE

\* the UPDATE found a row to change that another transaction has changed and not
\* yet committed: it waits for that transaction to end, then looks at the row again
Blocked(p) ==
    /\ Changed(recipients, Updated(p)) > 0
    /\ \E q \in Workers \ {p} :
           HoldsRow(q) /\ worker[q].tracking_id = worker[p].tracking_id

\* a request arrives: the route parameters are read
Accept(p, op, tracking_id, url) ==
    /\ worker[p].pc = "idle"
    /\ worker' = [worker EXCEPT ![p] =
                     [pc |-> "connect", op |-> op, tracking_id |-> tracking_id,
                      url |-> url, ts |-> NULL, rowcount |-> 0]]
    /\ UNCHANGED <<campaigns, variations, recipients, now, last, first_hit, call, sched, delivered>>

\* the except branch and the finally block: the response of a failed hit; closing
\* the connection rolls the transaction back
Fail(p) ==
    /\ worker' = [worker EXCEPT ![p] = Idle]
    /\ last' = Hit(worker[p].op, worker[p].tracking_id, worker[p].url, 0, TRUE,
                   IF worker[p].op = "tracking_pixel"
                   THEN PixelResponse("error")
                   ELSE ClickResponse(worker[p].url, "error"))
    /\ UNCHANGED <<campaigns, variations, recipients, now, first_hit, call, sched, delivered>>

\* conn = get_db_connection()
Connect(p, ok) ==
    /\ worker[p].pc = "connect"
    /\ IF ok
       THEN /\ worker' = [worker EXCEPT ![p].pc = "execute"]
            /\ UNCHANGED <<campaigns, variations, recipients, now, last, first_hit, call, sched, delivered>>
       ELSE Fail(p)

\* cursor.execute(UPDATE ...) is sent: the transaction begins, and
\* CURRENT_TIMESTAMP is its start time
Execute(p, ok) ==
    /\ worker[p].pc = "execute"
    /\ IF ok
       THEN /\ worker' = [worker EXCEPT ![p].pc = "executing", ![p].ts = now]
            /\ UNCHANGED <<campaigns, variations, recipients, now, last, first_hit, call, sched, delivered>>
       ELSE Fail(p)

\* cursor.execute(UPDATE ...) returns: the row is changed in the transaction
Executed(p) ==
    /\ worker[p].pc = "executing"
    /\ ~Blocked(p)
    /\ worker' = [worker EXCEPT ![p].pc = "commit",
                                ![p].rowcount = Changed(recipients, Updated(p))]
    /\ UNCHANGED <<campaigns, variations, recipients, now, last, first_hit, call, sched, delivered>>

\* conn.commit() and the return of the response
Commit(p, ok) ==
    /\ worker[p].pc = "commit"
    /\ IF ok
       THEN /\ recipients' =
                   IF worker[p].rowcount = 1
                   THEN [i \in RecipientIds |->
                            IF recipients[i].tracking_id # worker[p].tracking_id
                            THEN recipients[i]
                            ELSE IF worker[p].op = "tracking_pixel"
                            THEN [recipients[i] EXCEPT !.opened_at = worker[p].ts]
                            ELSE [recipients[i] EXCEPT !.clicked_at = worker[p].ts]]
                   ELSE recipients
            /\ first_hit' = RecordHit(first_hit,
                                      IF worker[p].op = "tracking_pixel"
                                      THEN "open" ELSE "click",
                                      worker[p].tracking_id, worker[p].ts)
            /\ worker' = [worker EXCEPT ![p] = Idle]
            /\ last' = Hit(worker[p].op, worker[p].tracking_id, worker[p].url,
                           worker[p].rowcount, FALSE,
                           IF worker[p].op = "tracking_pixel"
                           THEN PixelResponse("ok")
                           ELSE ClickResponse(worker[p].url, "ok"))
            /\ UNCHANGED <<campaigns, variations, now, call, sched, delivered>>
       ELSE Fail(p)

\* one campaign, sent to HitRecipients recipients, none of whom has opened or clicked
InitHits ==
    /\ campaigns = <<[status |-> "sent", total_recipients |-> HitRecipients]>>
    /\ variations = [i \in 1..ParsedVariations |->
                        [campaign_id |-> 1, variation_name |-> VariationName(i - 1)]]
    /\ recipients =
           TableOf(Rep(HitRecipients, Kind("amy@x.com", "sent", FALSE, FALSE)),
                   [i \in 1..ParsedVariations |-> [variation_name |-> VariationName(i - 1)]])
    /\ first_hit = [i \in 1..HitRecipients |-> [open |-> NULL, click |-> NULL]]
    /\ now = 1
    /\ last = NoRequest
    /\ call = NoCall
    /\ worker = [p \in Workers |-> Idle]
    /\ sched = NoSchedule
    /\ delivered = EmptyBag

NextHits ==
    \/ Tick
    \/ \E p \in Workers, tracking_id \in RequestedTokens :
           Accept(p, "tracking_pixel", tracking_id, "")
    \/ \E p \in Workers, tracking_id \in RequestedTokens, url \in Urls :
           Accept(p, "track_click", tracking_id, url)
    \/ \E p \in Workers, ok \in BOOLEAN : Connect(p, ok)
    \/ \E p \in Workers, ok \in BOOLEAN : Execute(p, ok)
    \/ \E p \in Workers : Executed(p)
    \/ \E p \in Workers, ok \in BOOLEAN : Commit(p, ok)

SpecHits == InitHits /\ [][NextHits]_vars

-----------------------------------------------------------------------------
(* The classification of one row alone, over every cell an open time may hold *)

\* the cells of the opentime column: every "h:m" of digits up to MaxHour and
\* MaxMinute, a blank cell, a missing cell and other text
OpenTimeCells ==
    {Cell("hh:mm", h, m) : h \in 0..MaxHour, m \in 0..MaxMinute}
        \cup {Cell("blank", 0, 0), Cell("nan", 0, 0), Cell("text", 0, 0)}

InitClassify ==
    /\ campaigns = <<>>
    /\ variations = <<>>
    /\ recipients = <<>>
    /\ now = 1
    /\ last = NoRequest
    /\ first_hit = <<>>
    /\ call \in [fn : {"RowBatch"}, email : {"amy@x.com"},
                 opentime : OpenTimeCells, result : {NONE}]
    /\ worker = [p \in Workers |-> Idle]
    /\ sched = NoSchedule
    /\ delivered = EmptyBag

ClassifyStep ==
    /\ call.fn = "RowBatch"
    /\ call.result = NONE
    /\ call' = [call EXCEPT !.result = RowBatch(call.email, call.opentime)]
    /\ UNCHANGED <<campaigns, variations, recipients, now, last, first_hit, worker, sched, delivered>>

SpecClassify == InitClassify /\ [][ClassifyStep]_vars

-----------------------------------------------------------------------------
(* The schedule alone, over call times through the day and every set of batches *)

\* datetime.datetime.now(): every quarter of an hour of the day, on the minute and
\* half a minute past it
CallClocks == {ClockAt(h, q * 15, s) : h \in 0..23, q \in 0..3, s \in 0..1}

\* batches_to_process with one recipient in each batch of the set
OneEach(buckets) ==
    [batch \in BatchNames |-> IF batch \in buckets THEN <<"amy@x.com">> ELSE <<>>]

InitPlan ==
    /\ campaigns = <<>>
    /\ variations = <<>>
    /\ recipients = <<>>
    /\ now = 1
    /\ last = NoRequest
    /\ first_hit = <<>>
    /\ call \in [fn : {"sorted_batches"}, now : CallClocks,
                 buckets : SUBSET BatchNames, returned : {FALSE}, result : {<<>>}]
    /\ worker = [p \in Workers |-> Idle]
    /\ sched = NoSchedule
    /\ delivered = EmptyBag

PlanStep ==
    /\ call.fn = "sorted_batches"
    /\ ~call.returned
    /\ call' = [call EXCEPT !.returned = TRUE,
                            !.result = sorted_batches(call.now, OneEach(call.buckets))]
    /\ UNCHANGED <<campaigns, variations, recipients, now, last, first_hit, worker, sched, delivered>>

SpecPlan == InitPlan /\ [][PlanStep]_vars

-----------------------------------------------------------------------------
(* send_optimized_schedule, from the request to its response *)

\* the email of the i-th row of a file
RowEmail(i) ==
    CASE i = 1 -> "amy@x.com"
      [] i = 2 -> "bob@x.com"
      [] i = 3 -> "carol@x.com"
      [] OTHER -> "dave@x.com"

\* open times of three batches, a missing cell and an hour that does not parse
ScheduleCells ==
    {Cell("hh:mm", 9, 30), Cell("hh:mm", 18, 0), Cell("hh:mm", 23, 45),
     Cell("nan", 0, 0), Cell("hh:mm", 25, 0)}

\* the files of at most MaxScheduleRows rows
ScheduleFiles ==
    UNION {{[i \in 1..n |-> [email |-> RowEmail(i), opentime |-> f[i]]] :
               f \in [1..n -> ScheduleCells]} : n \in 0..MaxScheduleRows}

\* the clock when the request computes its schedule
CallTimes ==
    {ClockAt(0, 0, 0), ClockAt(8, 0, 0), ClockAt(8, 0, 1), ClockAt(18, 0, 0),
     ClockAt(20, 0, 0)}

\* a call of the gateway takes no time, or six hours
SendDurations == {0, 6 * 60 * TicksPerMinute}

\* the results of a gateway call that returns
ReturnedResults == SendResults \ {"exception"}

\* a request that fails before it classifies does so whatever file it carries
ScheduleStep ==
    \E pre \in PreOutcomes :
        \E rows \in IF pre = "ok" THEN ScheduleFiles ELSE {<<>>} :
            \E clock \in IF pre = "ok" THEN CallTimes ELSE {0} :
                ScheduleRequest(rows, clock, pre)

WaitStep ==
    /\ sched.pc = "wait"
    /\ \E woke \in Sleep(sched.clock, sched.plan[sched.k].send_time) : Wait(woke)

SendOneStep(results) ==
    \E result \in results, took \in SendDurations : SendOne(result, took)

ReturnStep == Return

NextSchedule ==
    \/ ScheduleStep
    \/ WaitStep
    \/ SendOneStep(SendResults)
    \/ ReturnStep

SpecSchedule == Init /\ [][NextSchedule]_vars

\* The same when time advances and every gateway call returns
NextScheduleReturns ==
    \/ ScheduleStep
    \/ WaitStep
    \/ SendOneStep(ReturnedResults)
    \/ ReturnStep

SpecScheduleFair ==
    /\ Init
    /\ [][NextScheduleReturns]_vars
    /\ WF_vars(WaitStep)
    /\ WF_vars(SendOneStep(ReturnedResults))
    /\ WF_vars(ReturnStep)

-----------------------------------------------------------------------------
(* Properties *)

\* int(md5(email)[:8], 16) mod the length of the list, as a 1-based position
HashIndex(email, vlist) == (Md5Prefix(email) % Len(vlist)) + 1

\* C1: every recipient row carries the variation that the hash of its email selects
\* in the ordered variation list of its campaign, so two rows of one campaign with
\* the same email carry the same variation, whatever upload and file position they
\* came from and whatever other recipients came with them.
C1_AssignedByEmailHash ==
    \A i \in RecipientIds :
        LET vlist == CampaignVariations(recipients[i].campaign_id)
        IN  /\ Len(vlist) > 0
            /\ recipients[i].variation_assigned =
                   vlist[HashIndex(recipients[i].email_address, vlist)].variation_name
            /\ \A j \in RecipientIds :
                   (/\ recipients[j].campaign_id = recipients[i].campaign_id
                    /\ recipients[j].email_address = recipients[i].email_address)
                   => recipients[j].variation_assigned = recipients[i].variation_assigned

\* the same email uploaded twice, in two uploads and at two file positions, next to
\* a recipient of the other variation
C1_Witness ==
    /\ Len(recipients) = 3
    /\ recipients[1].email_address = "bob@x.com"
    /\ recipients[2].email_address = "amy@x.com"
    /\ recipients[3].email_address = "amy@x.com"
    /\ recipients[2].variation_assigned = recipients[3].variation_assigned
    /\ recipients[1].variation_assigned # recipients[2].variation_assigned

\* C2: two emails that differ only in letter case are assigned the same variation
\* of any non-empty variation list.
C2_CaseInsensitive ==
    (call.result # NONE /\ Len(call.variations) > 0)
    => \A other \in Emails :
           Lower(other) = Lower(call.email)
           => assign_variation(other, call.variations) = call.result

\* C3: for a non-empty list assign_variation returns the variation_name of the
\* element at index hash mod length, and for a list of one element that element's.
C3_ReturnsListElement ==
    (call.result # NONE /\ Len(call.variations) > 0)
    => /\ \E i \in DOMAIN call.variations :
              /\ i = HashIndex(call.email, call.variations)
              /\ call.result = call.variations[i].variation_name
       /\ Len(call.variations) = 1 => call.result = call.variations[1].variation_name

\* a list of one variation that is not the first of the alphabet
C3_Witness ==
    /\ call.result = "Variation_C"
    /\ Len(call.variations) = 1
    /\ call.variations[1].variation_name = "Variation_C"

\* C4: a recipient's opened_at is the time of the first committed pixel hit on its
\* tracking id (unset if there was none), whatever hits and other requests followed.
C4_FirstOpenWins ==
    \A i \in RecipientIds : recipients[i].opened_at = first_hit[i].open

\* a later pixel hit on a recipient who was sent the mail and opened it earlier
C4_Witness ==
    \E i \in RecipientIds :
        /\ last.op = "tracking_pixel"
        /\ last.tracking_id = i
        /\ ~last.error
        /\ last.rowcount = 0
        /\ recipients[i].status = "sent"
        /\ recipients[i].opened_at # NULL
        /\ recipients[i].opened_at < now

\* at most one transaction at a time holds an uncommitted write of a recipient row,
\* and only of a timestamp that is unset
OneWriter ==
    \A p \in Workers :
        HoldsRow(p)
        => /\ \A q \in Workers \ {p} :
                  ~(HoldsRow(q) /\ worker[q].tracking_id = worker[p].tracking_id)
           /\ \A i \in RecipientIds :
                  recipients[i].tracking_id = worker[p].tracking_id
                  => IF worker[p].op = "tracking_pixel"
                     THEN recipients[i].opened_at = NULL
                     ELSE recipients[i].clicked_at = NULL

\* a hit that returned without error leaves the timestamp of its recipient set
HitIsRecorded ==
    (last.op \in {"tracking_pixel", "track_click"} /\ ~last.error)
    => \A i \in RecipientIds :
           recipients[i].tracking_id = last.tracking_id
           => IF last.op = "tracking_pixel"
              THEN recipients[i].opened_at # NULL
              ELSE recipients[i].clicked_at # NULL

\* a timestamp that is set is not written again
NoOverwrite ==
    \A i \in RecipientIds :
        /\ recipients[i].opened_at # NULL
               => recipients'[i].opened_at = recipients[i].opened_at
        /\ recipients[i].clicked_at # NULL
               => recipients'[i].clicked_at = recipients[i].clicked_at

\* C5: when hits of one kind on one tracking id run concurrently, in every
\* interleaving exactly one of them writes the timestamp: no two hold a write of the
\* row at once, a write is only of an unset timestamp, a hit that returns without
\* error leaves it set, and once set no later commit changes it.
C5_AtomicConditionalWrite ==
    /\ [](OneWriter /\ HitIsRecorded)
    /\ [][NoOverwrite]_vars

\* two pixel hits on one tracking id: one holds the row, the other waits for it
C5_Witness ==
    \E p \in Workers, q \in Workers :
        /\ p # q
        /\ worker[p].op = "tracking_pixel"
        /\ worker[q].op = "tracking_pixel"
        /\ worker[p].tracking_id \in RecipientIds
        /\ worker[q].tracking_id = worker[p].tracking_id
        /\ HoldsRow(p)
        /\ worker[q].pc = "executing"

\* the step is a click: it left the record of a click and changed something
ClickObserved ==
    /\ last'.op = "track_click"
    /\ <<last, campaigns, variations, recipients>>' #
           <<last, campaigns, variations, recipients>>

\* nothing but clicked_at of the recipient of the token changes
ClickFrame ==
    /\ campaigns' = campaigns
    /\ variations' = variations
    /\ DOMAIN recipients' = DOMAIN recipients
    /\ \A i \in RecipientIds :
           /\ recipients'[i] =
                  [recipients[i] EXCEPT !.clicked_at = recipients'[i].clicked_at]
           /\ recipients[i].tracking_id # last'.tracking_id
                  => recipients'[i] = recipients[i]

\* C6: a recipient's clicked_at is the time of the first committed click on its
\* tracking id, later clicks leave it unchanged, and a click changes nothing else:
\* not opened_at, status or sent_at, no other recipient's row, no campaign.
C6_FirstClickWinsAndFrame ==
    /\ [](\A i \in RecipientIds : recipients[i].clicked_at = first_hit[i].click)
    /\ [][ClickObserved => ClickFrame]_vars

\* a later click on a recipient who was sent the mail, opened and clicked it,
\* beside a recipient who has not clicked
C6_Witness ==
    \E i \in RecipientIds, j \in RecipientIds :
        /\ i # j
        /\ last.op = "track_click"
        /\ last.tracking_id = i
        /\ ~last.error
        /\ last.rowcount = 0
        /\ recipients[i].clicked_at # NULL
        /\ recipients[i].clicked_at < now
        /\ recipients[i].opened_at # NULL
        /\ recipients[i].sent_at # NULL
        /\ recipients[j].clicked_at = NULL

\* C7: every pixel hit is answered with the placeholder image, whether its token
\* matches a recipient or none and whether or not connecting, the update or the
\* commit failed.
C7_PixelAlwaysServed ==
    last.op = "tracking_pixel" => last.response = PIXEL

\* a pixel hit on a known token whose write failed: the image was served and
\* nothing was recorded
C7_Witness ==
    /\ last.op = "tracking_pixel"
    /\ last.error
    /\ last.tracking_id \in RecipientIds
    /\ last.response = PIXEL
    /\ recipients[last.tracking_id].opened_at = NULL

\* C8: every click is answered with a redirect: to the requested url when the
\* handler did not raise, whether or not its update changed a row, and to the
\* configured base url when the request has no url or the handler raised.
C8_ClickAlwaysRedirects ==
    last.op = "track_click"
    => /\ last.response.kind = "redirect"
       /\ last.response.location =
              IF last.error \/ last.url = ABSENT THEN BASE_URL ELSE last.url

\* a click with a url whose update changed no row, redirected to that url
C8_Witness ==
    /\ last.op = "track_click"
    /\ ~last.error
    /\ last.rowcount = 0
    /\ last.url # ABSENT
    /\ last.response = Redirect(last.url)

\* rate is a / b * 100
IsPercent(rate, a, b) == rate.den > 0 /\ rate.num * b = 100 * a * rate.den

\* the recipients of a campaign assigned a variation
AssignedTo(campaign_id, variation) ==
    {i \in RecipientIds : /\ recipients[i].campaign_id = campaign_id
                          /\ recipients[i].variation_assigned = variation}

\* C9: the metrics of a campaign have one entry per distinct assigned variation,
\* whose counts are over that variation's recipients with status 'sent' only
\* (total, and those with opened_at, clicked_at, converted_at set), with
\* open_rate = opened/total*100, click_rate = clicked/total*100 and
\* click_through_rate = clicked/opened*100; sent=10, opened=4, clicked=2 gives
\* 40, 20 and 50.
C9_MetricsOverSentRecipients ==
    (last.op = "campaign_results" /\ last.response.success)
    => LET c == last.response.campaign
           m == last.response.metrics
       IN  /\ DOMAIN m = {recipients[i].variation_assigned :
                             i \in {j \in RecipientIds : recipients[j].campaign_id = c}}
           /\ \A v \in DOMAIN m :
                  LET sent == {i \in AssignedTo(c, v) : recipients[i].status = "sent"}
                  IN  /\ m[v].total_sent = Cardinality(sent)
                      /\ m[v].opened =
                             Cardinality({i \in sent : recipients[i].opened_at # NULL})
                      /\ m[v].clicked =
                             Cardinality({i \in sent : recipients[i].clicked_at # NULL})
                      /\ m[v].converted =
                             Cardinality({i \in sent : recipients[i].converted_at # NULL})
                      /\ m[v].total_sent > 0
                             => /\ IsPercent(m[v].open_rate, m[v].opened, m[v].total_sent)
                                /\ IsPercent(m[v].click_rate, m[v].clicked, m[v].total_sent)
                      /\ m[v].opened > 0
                             => IsPercent(m[v].click_through_rate, m[v].clicked, m[v].opened)
                      /\ (m[v].total_sent = 10 /\ m[v].opened = 4 /\ m[v].clicked = 2)
                             => /\ m[v].open_rate = [num |-> 40, den |-> 1]
                                /\ m[v].click_rate = [num |-> 20, den |-> 1]
                                /\ m[v].click_through_rate = [num |-> 50, den |-> 1]

\* ten sent, four opened, two clicked, beside a pending recipient of the same
\* variation who opened
C9_Witness ==
    /\ last.op = "campaign_results"
    /\ last.response.success
    /\ "Variation_A" \in DOMAIN last.response.metrics
    /\ last.response.metrics["Variation_A"].total_sent = 10
    /\ last.response.metrics["Variation_A"].opened = 4
    /\ last.response.metrics["Variation_A"].clicked = 2
    /\ \E i \in RecipientIds :
           /\ recipients[i].variation_assigned = "Variation_A"
           /\ recipients[i].status = "pending"
           /\ recipients[i].opened_at # NULL

\* C10: the metrics never divide by zero: a variation with assigned recipients and
\* none sent is reported with total_sent = 0 and all four rates 0, and a variation
\* with opened = 0 is reported with click_through_rate = 0 even when clicked > 0.
C10_NoDivisionByZero ==
    last.op = "campaign_results"
    => /\ last.response.error # "division by zero"
       /\ last.response.success
              => \A v \in DOMAIN last.response.metrics :
                     LET m == last.response.metrics[v]
                     IN  /\ \A r \in Rates : m[r].den # 0
                         /\ m.total_sent = 0 => \A r \in Rates : m[r] = Zero
                         /\ m.opened = 0 => m.click_through_rate = Zero
                         /\ (\A i \in AssignedTo(last.response.campaign, v) :
                                 recipients[i].status # "sent") => m.total_sent = 0

\* one variation with recipients but none sent, another with clicks and no open
C10_Witness ==
    /\ last.op = "campaign_results"
    /\ last.response.success
    /\ \E v \in DOMAIN last.response.metrics :
           /\ last.response.metrics[v].total_sent = 0
           /\ AssignedTo(last.response.campaign, v) # {}
    /\ \E v \in DOMAIN last.response.metrics :
           /\ last.response.metrics[v].opened = 0
           /\ last.response.metrics[v].clicked > 0
           /\ last.response.metrics[v].click_through_rate = Zero

\* the fixed table of open-time intervals [lo, hi), in minutes since midnight
FixedTable ==
    {[lo |->  6 * 60, hi |-> 10 * 60, batch |-> "Morning Batch 1"],
     [lo |-> 10 * 60, hi |-> 12 * 60, batch |-> "Morning Batch 2"],
     [lo |-> 12 * 60, hi |-> 17 * 60, batch |-> "Evening Batch 1"],
     [lo |-> 17 * 60, hi |-> 21 * 60, batch |-> "Evening Batch 2"],
     [lo |-> 21 * 60, hi |-> 24 * 60, batch |-> "Night Batch 1"],
     [lo |->  0 * 60, hi |->  1 * 60, batch |-> "Night Batch 1"],
     [lo |->  1 * 60, hi |->  6 * 60, batch |-> "Night Batch 2"]}

\* the cell reads as a 24-hour HH:MM
ValidOpenTime(cell) == cell.shape = "hh:mm" /\ cell.h \in 0..23 /\ cell.m \in 0..59

\* the classification of h:m returned this batch
Classified(h, m, batch) ==
    (call.opentime = Cell("hh:mm", h, m)) => call.result = batch

\* C11: a recipient with a valid 24-hour HH:MM open time is placed in the batch of
\* the fixed table whose interval holds the time, lower bound inclusive and upper
\* bound exclusive; 09:30 is Morning 1, 00:15 and 23:45 Night 1, 02:00 Night 2,
\* 10:00 Morning 2 and 01:00 Night 2.
C11_ClassifiedByFixedTable ==
    (call.fn = "RowBatch" /\ call.result # NONE /\ ValidOpenTime(call.opentime))
    => /\ \E e \in FixedTable :
              /\ e.lo <= call.opentime.h * 60 + call.opentime.m
              /\ call.opentime.h * 60 + call.opentime.m < e.hi
              /\ call.result = e.batch
       /\ Classified(9, 30, "Morning Batch 1")
       /\ Classified(0, 15, "Night Batch 1")
       /\ Classified(23, 45, "Night Batch 1")
       /\ Classified(2, 0, "Night Batch 2")
       /\ Classified(10, 0, "Morning Batch 2")
       /\ Classified(1, 0, "Night Batch 2")

\* the last minute of the day is classified into the first night batch
C11_Witness ==
    /\ call.fn = "RowBatch"
    /\ call.opentime = Cell("hh:mm", 23, 59)
    /\ call.result = "Night Batch 1"

\* the row's open time is missing (blank or NaN) or does not read as HH:MM
BadOpenTime(row) == ~ValidOpenTime(row.opentime)

\* the request got as far as classifying its rows
Classifying == sched.pc \in {"wait", "send", "return"} \/ (sched.pc = "done" /\ sched.rows # <<>>)

\* the number of recipients of a schedule
RECURSIVE PlanTotal(_)
PlanTotal(plan) ==
    IF plan = <<>> THEN 0 ELSE Len(Head(plan).recipients) + PlanTotal(Tail(plan))

\* the sum of the batch sizes of a report
RECURSIVE ReportTotal(_)
ReportTotal(scheduled) ==
    IF scheduled = <<>> THEN 0 ELSE Head(scheduled)[2] + ReportTotal(Tail(scheduled))

\* C12: a row whose open time is missing or unparseable is dropped silently: it is
\* in no batch of the schedule, no send is attempted for it, it is in no reported
\* batch size, and the request neither fails for it nor leaves out the other rows.
C12_BadOpenTimeDropped ==
    Classifying
    => LET bad == {i \in DOMAIN sched.rows : BadOpenTime(sched.rows[i])}
           good == DOMAIN sched.rows \ bad
       IN  /\ \A i \in bad :
                  /\ \A k \in DOMAIN sched.plan :
                         \A j \in DOMAIN sched.plan[k].recipients :
                             sched.plan[k].recipients[j] # sched.rows[i].email
                  /\ \A n \in DOMAIN sched.log :
                         sched.log[n].email # sched.rows[i].email
           /\ \A i \in good :
                  \E k \in DOMAIN sched.plan :
                      \E j \in DOMAIN sched.plan[k].recipients :
                          sched.plan[k].recipients[j] = sched.rows[i].email
           /\ PlanTotal(sched.plan) = Cardinality(good)
           /\ ReportTotal(sched.scheduled) <= Cardinality(good)
           /\ sched.pc = "done"
                  => \/ /\ sched.response.success
                        /\ ReportTotal(sched.response.scheduled_batches)
                               = Cardinality(good)
                     \/ /\ sched.response.error = "send raised"
                        /\ \E n \in DOMAIN sched.log : sched.log[n].result = "exception"

\* a file of a missing open time, an unparseable one and a good one: the request
\* succeeded and reports one batch of one recipient
C12_Witness ==
    /\ sched.pc = "done"
    /\ sched.response.success
    /\ Len(sched.rows) = 3
    /\ sched.rows[1].opentime = Cell("nan", 0, 0)
    /\ sched.rows[2].opentime = Cell("hh:mm", 25, 0)
    /\ sched.rows[3].opentime = Cell("hh:mm", 9, 30)
    /\ sched.response.scheduled_batches = <<(<<"Morning Batch 1", 1>>)>>

\* C19: the six membership tests partition the clock: every time 00:00..23:59
\* satisfies exactly one of them, so a row whose open time parses is never
\* classified 'Unknown Batch' and is never left out.
C19_IntervalsPartitionTheDay ==
    (call.fn = "RowBatch" /\ call.result # NONE
        /\ strptime(call.opentime) # ValueError)
    => /\ strptime(call.opentime) \in 0..Time(23, 59)
       /\ Cardinality({batch \in BatchNames :
                          InBatch(batch, strptime(call.opentime))}) = 1
       /\ call.result \in BatchNames
       /\ InBatch(call.result, strptime(call.opentime))

\* midnight, the start of the second half of the first night batch, and every
\* minute of the day is among the open times classified
C19_Witness ==
    /\ call.fn = "RowBatch"
    /\ call.opentime = Cell("hh:mm", 0, 0)
    /\ call.result = "Night Batch 1"
    /\ {strptime(c) : c \in OpenTimeCells} \ {ValueError} = 0..Time(23, 59)

\* the batches of a schedule, in its order
BatchesOf(plan) == [k \in DOMAIN plan |-> plan[k].batch]

\* the schedule of the call at h:00 for these batches gives them this order, and
\* all of them are sent tomorrow if so said
Example(h, buckets, order, all_tomorrow) ==
    (call.now = ClockAt(h, 0, 0) /\ call.buckets = buckets)
    => /\ BatchesOf(call.result) = order
       /\ all_tomorrow => \A k \in DOMAIN call.result : call.result[k].send_time >= Day

\* C13: each batch with recipients is sent at the next occurrence of its target
\* hour and minute, today if that time of day has not passed when the schedule is
\* computed and tomorrow otherwise, and the batches are in ascending order of
\* these times. At 20:00 the 08:00 and 19:00 batches are both tomorrow, 08:00
\* first; at 18:00 the 19:00 batch precedes the 00:30 batch, at 20:00 it follows it.
C13_NextOccurrenceAscending ==
    (call.fn = "sorted_batches" /\ call.returned)
    => /\ {call.result[k].batch : k \in DOMAIN call.result} = call.buckets
       /\ Len(call.result) = Cardinality(call.buckets)
       /\ \A k \in DOMAIN call.result :
              LET send_time == call.result[k].send_time
                  target == BATCH_SEND_TIMES(call.result[k].batch) * TicksPerMinute
              IN  /\ send_time % Day = target
                  /\ call.now <= send_time
                  /\ send_time < call.now + Day
                  /\ (send_time < Day) <=> (call.now % Day <= target)
       /\ \A k \in DOMAIN call.result :
              k > 1 => call.result[k - 1].send_time < call.result[k].send_time
       /\ Example(20, {"Morning Batch 1", "Evening Batch 2"},
                  <<"Morning Batch 1", "Evening Batch 2">>, TRUE)
       /\ Example(18, {"Evening Batch 2", "Night Batch 1"},
                  <<"Evening Batch 2", "Night Batch 1">>, FALSE)
       /\ Example(20, {"Evening Batch 2", "Night Batch 1"},
                  <<"Night Batch 1", "Evening Batch 2">>, TRUE)

\* called half a minute past 19:00: the 19:00 batch has passed and follows, a day
\* later, the 00:30 batch
C13_Witness ==
    /\ call.fn = "sorted_batches"
    /\ call.returned
    /\ call.now = ClockAt(19, 0, 1)
    /\ call.buckets = {"Evening Batch 2", "Night Batch 1"}
    /\ BatchesOf(call.result) = <<"Night Batch 1", "Evening Batch 2">>
    /\ call.result[2].send_time = Day + ClockAt(19, 0, 0)

\* the position in the schedule of the batch of a log entry
PlanIndex(entry) == CHOOSE k \in DOMAIN sched.plan : sched.plan[k].batch = entry.batch

\* C14: no message of a batch is sent before the batch's scheduled time, and the
\* batches are handled one after the other in the order of the schedule: the wait
\* of a batch comes once, before its sends and after every send of the batches
\* before it.
C14_NotBeforeScheduleAndSequential ==
    /\ \A n \in DOMAIN sched.log :
           /\ \E k \in DOMAIN sched.plan : sched.plan[k].batch = sched.log[n].batch
           /\ sched.log[n].at >= sched.plan[PlanIndex(sched.log[n])].send_time
           /\ \A n2 \in DOMAIN sched.log :
                  n < n2
                  => /\ PlanIndex(sched.log[n]) <= PlanIndex(sched.log[n2])
                     /\ sched.log[n].at <= sched.log[n2].at
                     /\ sched.log[n2].kind = "begin"
                            => PlanIndex(sched.log[n]) < PlanIndex(sched.log[n2])
           /\ sched.log[n].kind = "send"
                  => \E n0 \in 1..(n - 1) :
                         /\ sched.log[n0].kind = "begin"
                         /\ sched.log[n0].batch = sched.log[n].batch

\* two batches were sent in turn: the first took long, so that the second began
\* after its scheduled time, and the first had waited for its own
C14_Witness ==
    /\ sched.pc = "done"
    /\ sched.response.success
    /\ Len(sched.plan) = 2
    /\ Len(sched.plan[1].recipients) = 2
    /\ sched.called_at < sched.plan[1].send_time
    /\ \E n \in DOMAIN sched.log :
           /\ sched.log[n].kind = "begin"
           /\ sched.log[n].batch = sched.plan[2].batch
           /\ sched.log[n].at > sched.plan[2].send_time + 1

\* the send entries of the log for one recipient of a batch
Attempts(batch, email) ==
    {n \in DOMAIN sched.log : /\ sched.log[n].kind = "send"
                              /\ sched.log[n].batch = batch
                              /\ sched.log[n].email = email}

\* the report that lists every batch of the schedule with its recipient count
FullReport(plan) == [k \in DOMAIN plan |-> <<plan[k].batch, Len(plan[k].recipients)>>]

\* C15: a failed send does not end the batch or the schedule: when the request is
\* over, every recipient of every batch has had exactly one send attempt, whatever
\* the results of the other sends, and the report lists each batch with its full
\* recipient count.
C15_EveryRecipientAttemptedOnce ==
    (sched.pc = "done" /\ Len(sched.plan) > 0)
    => /\ \A k \in DOMAIN sched.plan :
              \A j \in DOMAIN sched.plan[k].recipients :
                  Cardinality(Attempts(sched.plan[k].batch,
                                       sched.plan[k].recipients[j])) = 1
       /\ sched.response.scheduled_batches = FullReport(sched.plan)

\* a request is dispatching its schedule
Dispatching == sched.pc \in {"wait", "send", "return"}

\* the report of a dispatch that ended: one entry for each batch with recipients
\* and for no other, with its recipient count, in ascending order of send time
ReportOfNonEmptyBuckets ==
    (sched.pc = "done" /\ (sched.rows # <<>> \/ sched.response.success))
    => LET report == sched.response.scheduled_batches
           to_process == batches_to_process(sched.rows)
       IN  /\ sched.response.success
           /\ {report[k][1] : k \in DOMAIN report}
                  = {batch \in BatchNames : Len(to_process[batch]) > 0}
           /\ \A k \in DOMAIN report :
                  /\ report[k][2] = Len(to_process[report[k][1]])
                  /\ report[k][2] > 0
                  /\ \A k2 \in DOMAIN report :
                         k < k2 => /\ report[k][1] # report[k2][1]
                                   /\ SendTime(sched.called_at, report[k][1])
                                          < SendTime(sched.called_at, report[k2][1])

\* C20: when time advances and every gateway call returns, dispatch terminates:
\* after finitely many waits and sends the request returns, and its report has
\* exactly one (batch, recipient count) entry for each batch with recipients and
\* none for the others, in dispatch order.
C20_DispatchTerminatesWithReport ==
    /\ Dispatching ~> (sched.pc = "done")
    /\ []ReportOfNonEmptyBuckets

\* a dispatch of three batches ended, one send failed with HttpError, and the
\* report lists the night batch first
C20_Witness ==
    /\ sched.pc = "done"
    /\ sched.response.success
    /\ Len(sched.response.scheduled_batches) = 3
    /\ sched.response.scheduled_batches[1] = <<"Night Batch 1", 1>>
    /\ \E n \in DOMAIN sched.log : sched.log[n].result = "http_error"

\* the step is a send_campaign on campaign c that runs to its end, and so executes
\* UPDATE campaigns SET status = 'sent' and commits it
CompletesSend(c) ==
    \E results \in [PendingRecipients(c) -> SendResults] :
        send_campaign(c, TRUE, "ok", results)

\* the status of every campaign is 'draft' or 'sent', a new campaign is 'draft',
\* and no step takes a status from 'sent' back to 'draft'
StatusDraftOrSent ==
    \A c \in CampaignIds : campaigns[c].status \in {"draft", "sent"}

StatusStep ==
    /\ \A c \in DOMAIN campaigns' \ DOMAIN campaigns : campaigns'[c].status = "draft"
    /\ \A c \in CampaignIds :
           /\ c \in DOMAIN campaigns'
           /\ campaigns[c].status = "sent" => campaigns'[c].status = "sent"
           /\ campaigns'[c].status # campaigns[c].status => CompletesSend(c)

\* the write of 'sent' happens to a campaign that is 'draft' only
WritesSentOnce ==
    \A c \in CampaignIds : CompletesSend(c) => campaigns[c].status = "draft"

\* C16 as stated: the status is always 'draft' or 'sent', starts as 'draft',
\* changes only when a send_campaign completes and never back, and the write of
\* 'sent' happens at most once per campaign.
C16_StatusWrittenOnce ==
    /\ []StatusDraftOrSent
    /\ [][StatusStep /\ WritesSentOnce]_vars

\* C16 amended: the status is always 'draft' or 'sent', starts as 'draft', changes
\* only from 'draft' to 'sent' and only in a send_campaign that completes, so at
\* most once per campaign; a send that does not complete leaves it as it was, and
\* a later send that completes writes 'sent' again over 'sent'.
C16_StatusDraftThenSent ==
    /\ []StatusDraftOrSent
    /\ [][StatusStep]_vars

\* a campaign that is 'sent' after two sends at different times, the last of which
\* completed
C16_Witness ==
    /\ Len(campaigns) = 1
    /\ campaigns[1].status = "sent"
    /\ Len(recipients) = 2
    /\ recipients[1].status = "sent"
    /\ recipients[2].status = "sent"
    /\ recipients[1].sent_at < recipients[2].sent_at
    /\ last.op = "send_campaign"
    /\ last.response.success

\* C17: no operation writes converted_at: it is unset for every recipient in every
\* reachable state, and every variation's converted count and conversion_rate in
\* the metrics are 0.
C17_ConvertedNeverSet ==
    /\ \A i \in RecipientIds : recipients[i].converted_at = NULL
    /\ (last.op = "campaign_results" /\ last.response.success)
           => \A v \in DOMAIN last.response.metrics :
                  /\ last.response.metrics[v].converted = 0
                  /\ last.response.metrics[v].conversion_rate = Zero

\* the metrics of a campaign whose recipient was sent the mail, opened and clicked
C17_Witness ==
    /\ last.op = "campaign_results"
    /\ last.response.success
    /\ \E v \in DOMAIN last.response.metrics :
           /\ last.response.metrics[v].clicked > 0
           /\ last.response.metrics[v].opened > 0
           /\ last.response.metrics[v].converted = 0

\* the step is an upload, for a campaign without variations, of a file with at
\* least one non-empty email, that no other failure ends first
UploadsToNoVariations ==
    \E campaign_id \in RequestedCampaigns \ {NULL} :
        \E csv \in SeqsUpTo(CsvCells, MaxCsvRows) :
            /\ CampaignVariations(campaign_id) = <<>>
            /\ Len(CsvEmails(csv)) > 0
            /\ upload_recipients(campaign_id, csv, "ok")

\* C18: an upload for a campaign with no variations and at least one non-empty
\* email returns a failure, persists no recipient row and leaves total_recipients
\* of every campaign unchanged.
C18_EmptyVariationsRejected ==
    [][UploadsToNoVariations
           => /\ last'.op = "upload_recipients"
              /\ ~last'.response.success
              /\ recipients' = recipients
              /\ campaigns' = campaigns]_vars

\* such an upload was answered with the message of the division by zero; the
\* campaign that has variations keeps its recipients and its count
C18_Witness ==
    /\ last.op = "upload_recipients"
    /\ last.response = JsonError("integer division or modulo by zero")
    /\ Len(campaigns) = 1
    /\ campaigns[1].total_recipients = 2
    /\ Len(recipients) = 2

\* the recipient rows that belong to a campaign
RowsOf(campaign_id) == {i \in RecipientIds : recipients[i].campaign_id = campaign_id}

\* C22: after any sequence of upload_recipients calls, a campaign's
\* total_recipients equals the number of recipient rows that belong to it.
C22_TotalEqualsRows ==
    \A c \in CampaignIds : campaigns[c].total_recipients = Cardinality(RowsOf(c))

\* the step is a tracking hit that was answered
TrackingObserved ==
    /\ last'.op \in {"tracking_pixel", "track_click"}
    /\ <<last, recipients>>' # <<last, recipients>>

\* the step changes neither status nor sent_at of any recipient
DeliveryFrame ==
    /\ DOMAIN recipients' = DOMAIN recipients
    /\ \A i \in RecipientIds :
           /\ recipients'[i].status = recipients[i].status
           /\ recipients'[i].sent_at = recipients[i].sent_at

\* C23: in every committed state a recipient's sent_at is set if and only if its
\* status is 'sent' (a pending or failed recipient has none), and no tracking hit
\* changes either field.
C23_SentAtIffSent ==
    /\ [](\A i \in RecipientIds :
              (recipients[i].sent_at # NULL) <=> (recipients[i].status = "sent"))
    /\ [][TrackingObserved => DeliveryFrame]_vars

\* a recipient that was sent the mail and one whose send failed, after a click
\* of the first was recorded
C23_Witness ==
    \E i \in RecipientIds, j \in RecipientIds :
        /\ recipients[i].status = "sent"
        /\ recipients[i].sent_at # NULL
        /\ recipients[j].status = "failed"
        /\ recipients[j].sent_at = NULL
        /\ last.op = "track_click"
        /\ last.tracking_id = i
        /\ last.rowcount = 1

\* the step leaves alone every recipient that was sent the mail or refused it:
\* its status stays and Gmail accepts no further mail for it
SentAndFailedStay ==
    \A i \in RecipientIds :
        recipients[i].status \in {"sent", "failed"} =>
            /\ recipients'[i].status = recipients[i].status
            /\ CopiesIn(i, delivered') = CopiesIn(i, delivered)

\* C21: a recipient's status is always pending, sent or failed; send_campaign
\* processes pending recipients only, so a recipient that became sent or failed
\* keeps its status and is never sent to again; and over any sequence of
\* send_campaign calls Gmail accepts at most one campaign mail per recipient.
C21_DeliveredAtMostOnce ==
    /\ [](\A i \in RecipientIds : recipients[i].status \in {"pending", "sent", "failed"})
    /\ [][SentAndFailedStay]_vars
    /\ [](\A i \in RecipientIds : CopiesIn(i, delivered) <= 1)

====
